---------------------------- MODULE Spec2Model ----------------------------
(***************************************************************************)
(* A state-machine model of the Root Viewer application                    *)
(* (leakey-lab/Root-Mask-and-Skeletons): the file-name conventions of      *)
(* masks and of root_lengths.csv, the undo/redo stacks of the mask tracing *)
(* interface, the worker threads (image loader, skeleton generator, root   *)
(* length calculator, mask generator), the lazy loading of processed       *)
(* images and the root-length visualization panel of the main window.      *)
(*                                                                         *)
(* Representation.  A path is a non-empty sequence of components, the      *)
(* first one the file-system root.  A component is a record                *)
(* [base, tag, ext] whose text is base \o tag \o ext, so that              *)
(* os.path.splitext, str.endswith("_fake.png") and str.replace work on     *)
(* the parts of a name as they work on its text.  None is the empty        *)
(* sequence.  The content of a QPixmap is abstracted to "transparent"      *)
(* (nothing painted) or "painted".                                         *)
(***************************************************************************)
EXTENDS Integers, Sequences, FiniteSets, TLC

VARIABLES
    \* ---- the file system
    dirs,                 \* the directories that exist (paths)
    files,                \* the regular files that exist (paths)
    \* ---- ImageManager
    images,               \* ImageManager.images: name -> path
    masks,                \* ImageManager.masks: name -> path
    fake_images,          \* ImageManager.fake_images: name -> path
    has_fake_real_pairs,  \* ImageManager.has_fake_real_pairs
    html_path,            \* ImageManager.html_path
    original_folder,      \* ImageManager.original_folder
    processed_base_path,  \* ImageManager.processed_base_path
    current_view_mode,    \* ImageManager.current_view_mode
    \* ---- MaskTracingInterface
    current_image_path,   \* MaskTracingInterface.current_image_path
    mask_directory,       \* MaskTracingInterface.mask_directory
    mask_pixmap,          \* MaskTracingInterface.mask_pixmap: "None" or a content
    undo_stack,           \* MaskTracingInterface.undo_stack
    redo_stack,           \* MaskTracingInterface.redo_stack
    tool,                 \* the checked tool button: "brush", "eraser" or "fill"
    drawing,              \* MaskTracingInterface.drawing
    view_drawing,         \* MaskTracingGraphicsView.drawing
    pan_mode,             \* MaskTracingGraphicsView.pan_mode
    zoom,                 \* zoom, scroll and brush-size state of the tracing view:
                          \*   [zoom_slider, zoom_factor, view_zoom, transform, scroll,
                          \*    b_key_pressed, size_slider, brush_size, wheels]
    sam2,                 \* SAM2Controls: [predictor, sam_points, generated_masks,
                          \*                auto_select_mode, predicting]
    \* ---- MainWindow
    file_list,            \* the item texts of MainWindow.file_list, in order
    item_color,           \* the foreground colour of each item
    current_item,         \* file_list.currentItem(): {} or {name}
    view_mode_combo,      \* view_mode_combo.currentText()
    right_panel,          \* the current widget of MainWindow.right_panel
    viz_button_text,      \* the text of visualize_root_length_button
    root_length_viz,      \* MainWindow.root_length_viz: 0 is None, else the object
    viz_objects,          \* the RootLengthVisualization objects constructed so far
    dash_servers,         \* the objects whose port-8050 server thread is live
    connected,            \* how often on_mask_saved/... are connected to the interface
    \* ---- worker threads
    loaders,              \* the ImageLoaderThread objects created so far
    loader_thread,        \* ImageManager.loader_thread: 0 is None, else an index
    ui_queue,             \* signals emitted by threads, queued for the UI thread
    skel,                 \* the SkeletonGeneratorThread
    calc,                 \* the RootLengthCalculatorThread
    gen,                  \* the MaskGenerationThread
    \* ---- observations
    io,                   \* the last path each file operation used
    last                  \* the last operation and what it saw before it ran

None == << >>

-----------------------------------------------------------------------------
(* Names and paths                                                         *)

Comp(b, t, e) == [base |-> b, tag |-> t, ext |-> e]
Dir(b) == Comp(b, "", "")

\* str.lower() on the extension part of a name
Lower(e) ==
    CASE e = ".PNG" -> ".png"
      [] e = ".JPG" -> ".jpg"
      [] e = ".JPEG" -> ".jpeg"
      [] OTHER -> e

\* f.lower().endswith((".png", ".jpg", ".jpeg"))
IsImageName(c) == Lower(c.ext) \in {".png", ".jpg", ".jpeg"}

\* os.path.splitext(name)[0]
splitext0(c) == [c EXCEPT !.ext = ""]

\* stem + ".png"
PlusPng(c) == [c EXCEPT !.ext = ".png"]

\* os.path.join(p, c), os.path.dirname(p), os.path.basename(p)
join(p, c) == Append(p, c)
dirname(p) == IF Len(p) <= 1 THEN p ELSE SubSeq(p, 1, Len(p) - 1)
basename(p) == p[Len(p)]

\* os.path.exists(p), os.listdir(d)
exists(p) == p \in dirs \/ p \in files
listdir(d) == {basename(p) : p \in {q \in dirs \cup files : Len(q) = Len(d) + 1 /\ dirname(q) = d}}


-----------------------------------------------------------------------------
(* The folders of the model                                                *)

Root == <<Dir("/")>>
Folder == join(Root, Dir("data"))                \* the folder the user loads
OutputDir == join(Folder, Dir("output"))
SkeletonizerDir == join(OutputDir, Dir("skeletonizer"))
TestLatestDir == join(SkeletonizerDir, Dir("test_latest"))
ImagesDir == join(TestLatestDir, Dir("images"))
FlatTestLatestDir == join(Folder, Dir("test_latest"))
FlatImagesDir == join(FlatTestLatestDir, Dir("images"))
MaskDir == join(Folder, Dir("mask"))
CsvName == Comp("root_lengths", "", ".csv")
IndexHtml == Comp("index", "", ".html")

\* the image names a folder may hold, and the extensions of an image file
Bases == {"T1", "T2"}
Exts == {".png", ".jpg", ".jpeg", ".JPG"}

\* the directory layouts a loaded folder may have
StandardLayout == {Root, Folder, OutputDir, SkeletonizerDir, TestLatestDir, ImagesDir}
FlatLayout == {Root, Folder, FlatTestLatestDir, FlatImagesDir}
BareLayout == {Root, Folder}

\* the skeleton images the inference script leaves in an images directory
SkeletonFiles(layout, bs) ==
    LET d == IF ImagesDir \in layout THEN ImagesDir ELSE FlatImagesDir
    IN  IF d \in layout
        THEN {join(d, Comp(b, "_fake", ".png")) : b \in bs}
                 \cup {join(d, Comp(b, "_real", ".png")) : b \in bs}
        ELSE {}

-----------------------------------------------------------------------------
(* MainWindow.find_test_latest_dir: the set of directories the search may  *)
(* return (os.scandir yields entries in an arbitrary order); {} is None.   *)

max_depth == 3
PriorityNames == {"output", "results", "test", "latest", "test_latest"}
SiblingNames == {"output", "results", "test", "latest"}
subdirs(d) == {q \in dirs : Len(q) = Len(d) + 1 /\ dirname(q) = d}

RECURSIVE search_directory(_, _)
search_directory(root_path, depth) ==
    IF depth > max_depth THEN {}
    ELSE IF basename(root_path) = Dir("test_latest") THEN {root_path}
    ELSE LET prio == {q \in subdirs(root_path) : basename(q).base \in PriorityNames}
             hits(S) == UNION {search_directory(q, depth + 1) : q \in S}
         IN  IF hits(prio) # {} THEN hits(prio) ELSE hits(subdirs(root_path) \ prio)

RECURSIVE search_up(_, _)
search_up(path, depth) ==
    IF depth > max_depth THEN {}
    ELSE IF basename(path) = Dir("test_latest") THEN {path}
    ELSE IF dirname(path) = path THEN {}
    ELSE LET sib == subdirs(dirname(path)) \ {path}
             named == {q \in sib : basename(q) = Dir("test_latest")}
             found == UNION {search_directory(q, 0) :
                               q \in {s \in sib : basename(s).base \in SiblingNames}}
         IN  IF named \cup found # {} THEN named \cup found
             ELSE search_up(dirname(path), depth + 1)

find_test_latest_dir(start_path) ==
    IF search_directory(start_path, 0) # {} THEN search_directory(start_path, 0)
    ELSE search_up(start_path, 0)


-----------------------------------------------------------------------------
(* MaskTracingInterface: the mask pixmap and the undo/redo stacks          *)

max_stack_size == 25
MaxTransparentDepth == 2 \* transparent contents are explored within the first
                         \* MaxTransparentDepth entries of the history and as its newest
MaxSamPoints == 1       \* SAM2 prompt points kept at a time

Pixmaps == {"transparent", "painted"}

\* a faulty push that rejects the new entry when the stack is full
push_drop_newest(stack, x) ==
    IF Len(stack) + 1 > max_stack_size THEN stack ELSE Append(stack, x)

\* list.append(x) followed by: if len(list) > max_stack_size: list.pop(0)
push_limited(stack, x) ==
    IF Len(stack) + 1 > max_stack_size THEN Tail(Append(stack, x)) ELSE Append(stack, x)

\* a faulty save_for_undo that forgets redo_stack.clear()
save_keeping_redo(s) ==
    IF s.mask = "None" THEN s
    ELSE [s EXCEPT !.undo = push_limited(s.undo, s.mask)]

\* The editing state is the record [mask, undo, redo].
\* save_for_undo: nothing without a mask; else push a copy and clear redo.
save_for_undo(s) ==
    IF s.mask = "None" THEN s
    ELSE [s EXCEPT !.undo = push_limited(s.undo, s.mask), !.redo = << >>]

undo_of(s) ==
    IF s.undo = << >> THEN s
    ELSE [mask |-> s.undo[Len(s.undo)],
          undo |-> SubSeq(s.undo, 1, Len(s.undo) - 1),
          redo |-> push_limited(s.redo, s.mask)]

redo_of(s) ==
    IF s.redo = << >> THEN s
    ELSE [mask |-> s.redo[Len(s.redo)],
          undo |-> push_limited(s.undo, s.mask),
          redo |-> SubSeq(s.redo, 1, Len(s.redo) - 1)]

Editing == [mask |-> mask_pixmap, undo |-> undo_stack, redo |-> redo_stack]
SetEditing(s) ==
    /\ mask_pixmap' = s.mask
    /\ undo_stack' = s.undo
    /\ redo_stack' = s.redo

\* the exploration bound on the editing state s an operation is about to install
Budget(s) ==
    /\ \A i \in DOMAIN s.undo : s.undo[i] = "transparent" => i <= MaxTransparentDepth
    /\ s.mask = "transparent" => (Len(s.undo) <= MaxTransparentDepth \/ s.redo = << >>)

fsVars == <<dirs, files>>
imVars == <<images, masks, fake_images, has_fake_real_pairs, html_path,
            original_folder, processed_base_path, current_view_mode>>
editVars == <<mask_pixmap, undo_stack, redo_stack>>
traceVars == <<current_image_path, mask_directory, tool, drawing, view_drawing,
               pan_mode, zoom, sam2>>
listVars == <<file_list, item_color, current_item, view_mode_combo>>
panelVars == <<right_panel, connected>>
vizVars == <<viz_button_text, root_length_viz, viz_objects, dash_servers>>
loaderVars == <<loaders, loader_thread, ui_queue>>
threadVars == <<skel, calc, gen>>
vars == <<fsVars, imVars, editVars, traceVars, listVars, panelVars, vizVars,
          loaderVars, threadVars, io, last>>

\* History of the last operation: op is "new" for an operation that recorded a
\* new mask-modifying action through save_for_undo with a mask present, and then
\* had_redo / full tell whether the redo stack was non-empty / the undo stack
\* was full when it started.
Mark(op) ==
    last' = [op |-> op,
             had_redo |-> (op = "new" /\ redo_stack # << >>),
             full |-> (op = "new" /\ Len(undo_stack) = max_stack_size)]

\* CompositionMode_DestinationOut of a stroke or segment: it may erase all the ink
EraseOutcomes(m) == IF m = "painted" THEN {"painted", "transparent"} ELSE {m}

\* the slots of MainWindow connected to mask_saved / mask_cleared colour the item of
\* the image (highlight_saved_mask, on_mask_saved; unhighlight_cleared_mask,
\* on_mask_cleared): the item whose text is the image's name without extension
colour_item(image_path, colour) ==
    LET image_name == splitext0(basename(image_path))
    IN  IF connected > 0 /\ image_name \in DOMAIN item_color
        THEN item_color' = [item_color EXCEPT ![image_name] = colour]
        ELSE item_color' = item_color

\* ---- zoom, scroll and brush size of the tracing view
\* the number of wheel events followed
MaxWheel == 3
\* the scroll bar positions 0..MaxScroll
MaxScroll == 2

clamp(v, lo, hi) == IF v < lo THEN lo ELSE IF v > hi THEN hi ELSE v

\* MaskTracingInterface.__init__ / initUI and MaskTracingGraphicsView.__init__:
\* sliders at their defaults, zoom factors 1.0 (kept in percent), identity
\* transform.  view_zoom is the exponent k of MaskTracingGraphicsView.zoom_factor
\* = 1.25^k (0.8 = 1/1.25); transform is scale(base/100) followed by `steps`
\* further scale(1.25) calls (negative: scale(0.8)).
InitZoom ==
    [zoom_slider |-> 100, zoom_factor |-> 100, view_zoom |-> 0,
     transform |-> [base |-> 100, steps |-> 0], scroll |-> 0,
     b_key_pressed |-> FALSE, size_slider |-> 5, brush_size |-> 5, wheels |-> 0]

\* int(round(self.zoom_factor * 100)) for zoom_factor = 1.25^k
zoom_percent(k) ==
    IF k >= 0 THEN (200 * 5^k + 4^k) \div (2 * 4^k)
    ELSE (200 * 4^(0 - k) + 5^(0 - k)) \div (2 * 5^(0 - k))

\* MaskTracingInterface.update_zoom, the slot of zoom_slider.valueChanged
update_zoom(z, value) ==
    [z EXCEPT !.zoom_factor = value, !.transform = [base |-> value, steps |-> 0]]

\* zoom_slider.setValue: the value is kept in the slider's range 10..200 and
\* valueChanged is emitted only when the value changes
zoom_slider_setValue(z, v) ==
    LET c == clamp(v, 10, 200)
    IN  IF c = z.zoom_slider THEN z ELSE update_zoom([z EXCEPT !.zoom_slider = c], c)

\* MaskTracingInterface.update_brush_size
update_brush_size(z, value) == [z EXCEPT !.brush_size = value]

\* MaskTracingInterface.wheelEvent: reached when the view ignored the event
interface_wheelEvent(z, ctrl, up) ==
    IF z.b_key_pressed
    THEN LET new_value == IF up THEN clamp(z.size_slider + 1, 1, 50)
                          ELSE clamp(z.size_slider - 1, 1, 50)
         IN  update_brush_size([z EXCEPT !.size_slider = new_value], new_value)
    ELSE IF ctrl
    THEN IF up THEN zoom_slider_setValue(z, clamp(z.zoom_slider + 10, 10, 200))
         ELSE zoom_slider_setValue(z, clamp(z.zoom_slider - 10, 10, 200))
    ELSE z

\* MaskTracingGraphicsView.wheelEvent, with the delivery of an ignored event
\* to the parent MaskTracingInterface
view_wheelEvent(z, is_drawing, ctrl, up) ==
    LET k == z.view_zoom
        below_max == k < 0 \/ 5^k < 10 * 4^k
        above_min == k >= 0 \/ 10 * 4^(0 - k) > 5^(0 - k)
        scaled(d) == [z EXCEPT !.view_zoom = k + d, !.transform.steps = @ + d]
    IN  IF is_drawing \/ z.b_key_pressed THEN interface_wheelEvent(z, ctrl, up)
        ELSE IF ctrl
        THEN IF up /\ below_max THEN zoom_slider_setValue(scaled(1), zoom_percent(k + 1))
             ELSE IF ~up /\ above_min
             THEN zoom_slider_setValue(scaled(-1), zoom_percent(k - 1))
             ELSE interface_wheelEvent(z, ctrl, up)
        ELSE [z EXCEPT !.scroll = clamp(IF up THEN @ - 1 ELSE @ + 1, 0, MaxScroll)]

\* MaskTracingInterface.load_image wrapped by enhanced_load_image
load_image(image_path) ==
    LET mask_path == join(join(dirname(image_path), Dir("mask")), basename(image_path))
    IN  /\ current_image_path' = image_path
        /\ mask_directory' = join(dirname(image_path), Dir("mask"))
        /\ undo_stack' = << >>
        /\ redo_stack' = << >>
        /\ IF exists(mask_path)
           THEN \E c \in Pixmaps : mask_pixmap' = c
           ELSE mask_pixmap' = "transparent"
        /\ drawing' = FALSE
        /\ \E set_image_ok \in BOOLEAN :
             sam2' = IF sam2.predictor /\ set_image_ok
                     THEN [sam2 EXCEPT !.sam_points = 0, !.generated_masks = FALSE,
                                       !.auto_select_mode = FALSE]
                     ELSE sam2
        /\ io' = [io EXCEPT !.mask_read = IF exists(mask_path) THEN mask_path ELSE None]
        /\ zoom' = zoom_slider_setValue(zoom, 100)
        /\ UNCHANGED <<tool, view_drawing, pan_mode>>

\* MaskTracingInterface.draw_point
draw_point ==
    /\ \E m \in (IF tool = "eraser" THEN EraseOutcomes(mask_pixmap) ELSE {"painted"}) :
         /\ Budget([Editing EXCEPT !.mask = m])
         /\ mask_pixmap' = m
    /\ Mark("other")
    /\ UNCHANGED <<undo_stack, redo_stack>>

\* EnhancedMaskTracingInterface.apply_sam2_auto_mask (the mask is not None here)
apply_sam2_auto_mask(add_to_mask) ==
    LET s1 == save_for_undo(Editing)
    IN  /\ \E m \in (IF add_to_mask THEN {"painted"} ELSE EraseOutcomes(s1.mask)) :
             /\ Budget([s1 EXCEPT !.mask = m])
             /\ SetEditing([s1 EXCEPT !.mask = m])
        /\ Mark("new")
        /\ UNCHANGED traceVars

\* MaskTracingGraphicsView.mousePressEvent
mousePressEvent(button) ==
    IF ~pan_mode /\ button = "left" /\ mask_pixmap # "None"
    THEN LET s1 == save_for_undo(Editing)
             s2 == CASE tool = "fill" -> [save_for_undo(s1) EXCEPT !.mask = "painted"]
                     [] tool = "brush" -> [s1 EXCEPT !.mask = "painted"]
                     [] OTHER -> s1
         IN  /\ Budget(s2)
             /\ SetEditing(s2)
             /\ Mark("new")
             /\ view_drawing' = TRUE
             /\ drawing' = TRUE
             /\ UNCHANGED <<current_image_path, mask_directory, tool, pan_mode, zoom, sam2>>
    ELSE Mark("other") /\ UNCHANGED <<editVars, traceVars>>

\* EnhancedMaskTracingInterface.enhanced_mouse_press; hit: the click lies in a
\* generated segment.  map_to_image raises when there is no mask pixmap.
enhanced_mouse_press(button, ctrl, hit) ==
    /\ IF mask_pixmap = "None" THEN Mark("other") /\ UNCHANGED <<editVars, traceVars>>
       ELSE IF sam2.auto_select_mode /\ sam2.generated_masks /\ hit
                /\ button \in {"left", "right"}
       THEN apply_sam2_auto_mask(button = "left")
       ELSE IF ctrl /\ button \in {"left", "right"}
       THEN /\ sam2.sam_points < MaxSamPoints
            /\ sam2' = [sam2 EXCEPT !.sam_points = @ + 1]
            /\ Mark("other")
            /\ UNCHANGED <<editVars, current_image_path, mask_directory, tool, drawing,
                           view_drawing, pan_mode, zoom>>
       ELSE mousePressEvent(button)
    /\ UNCHANGED <<fsVars, imVars, listVars, panelVars, vizVars, loaderVars, threadVars, io>>

\* MaskTracingGraphicsView.mouseMoveEvent; left: the left button is held
mouseMoveEvent(left) ==
    /\ IF ~pan_mode /\ left /\ drawing /\ mask_pixmap # "None"
       THEN draw_point /\ UNCHANGED <<current_image_path, mask_directory, tool, drawing,
                                      view_drawing, pan_mode, zoom, sam2>>
       ELSE Mark("other") /\ UNCHANGED <<editVars, traceVars>>
    /\ UNCHANGED <<fsVars, imVars, listVars, panelVars, vizVars, loaderVars, threadVars, io>>

\* MaskTracingGraphicsView.mouseReleaseEvent
mouseReleaseEvent(button) ==
    /\ Mark("other")
    /\ IF ~pan_mode /\ button = "left"
       THEN /\ view_drawing' = FALSE
            /\ drawing' = FALSE
            /\ UNCHANGED <<current_image_path, mask_directory, tool, pan_mode, zoom, sam2>>
       ELSE UNCHANGED traceVars
    /\ UNCHANGED <<fsVars, imVars, editVars, listVars, panelVars, vizVars, loaderVars,
                   threadVars, io>>

\* a click on one of the exclusive tool buttons
select_tool(t) ==
    /\ Mark("other")
    /\ tool' = t
    /\ UNCHANGED <<current_image_path, mask_directory, drawing, view_drawing,
                   pan_mode, zoom, sam2>>
    /\ UNCHANGED <<fsVars, imVars, editVars, listVars, panelVars, vizVars, loaderVars,
                   threadVars, io>>

\* MaskTracingInterface.toggle_mode -> MaskTracingGraphicsView.set_mode
toggle_mode ==
    /\ Mark("other")
    /\ pan_mode' = ~pan_mode
    /\ view_drawing' = FALSE
    /\ UNCHANGED <<current_image_path, mask_directory, tool, drawing, zoom, sam2>>
    /\ UNCHANGED <<fsVars, imVars, editVars, listVars, panelVars, vizVars, loaderVars,
                   threadVars, io>>

\* MaskTracingInterface.clear_mask; without a current image path
\* os.path.basename raises after the mask has been cleared
clear_mask ==
    /\ Mark(IF mask_pixmap # "None" THEN "new" ELSE "other")
    /\ IF mask_pixmap # "None"
       THEN LET s1 == [save_for_undo(Editing) EXCEPT !.mask = "transparent"]
            IN  /\ Budget(s1)
                /\ SetEditing(s1)
                /\ IF current_image_path = None
                   THEN UNCHANGED <<files, item_color>>
                   ELSE /\ files' = files \ {join(mask_directory,
                                                   basename(current_image_path))}
                        /\ colour_item(current_image_path, "white")
       ELSE UNCHANGED <<editVars, files, item_color>>
    /\ UNCHANGED <<dirs, imVars, traceVars, file_list, current_item, view_mode_combo,
                   panelVars, vizVars,
                   loaderVars, threadVars, io>>

\* MaskTracingInterface.save_mask
save_mask ==
    /\ Mark("other")
    /\ IF mask_pixmap # "None" /\ current_image_path # None
       THEN LET save_path == join(mask_directory, basename(current_image_path))
            IN  /\ dirs' = dirs \cup {mask_directory}
                /\ files' = files \cup {save_path}
                /\ io' = [io EXCEPT !.saved = save_path]
                /\ colour_item(current_image_path, "green")
       ELSE UNCHANGED <<fsVars, io, item_color>>
    /\ UNCHANGED <<imVars, editVars, traceVars, file_list, current_item, view_mode_combo,
                   panelVars,
                   vizVars, loaderVars, threadVars>>

\* MaskTracingInterface.undo
undo ==
    /\ Mark("other")
    /\ SetEditing(undo_of(Editing))
    /\ UNCHANGED <<fsVars, imVars, traceVars, listVars, panelVars, vizVars,
                   loaderVars, threadVars, io>>

\* MaskTracingInterface.redo
redo ==
    /\ Mark("other")
    /\ SetEditing(redo_of(Editing))
    /\ UNCHANGED <<fsVars, imVars, traceVars, listVars, panelVars, vizVars,
                   loaderVars, threadVars, io>>

\* SAM2Controls.predict_mask: starts a SAM2PredictionThread
predict_mask ==
    /\ Mark("other")
    /\ IF sam2.predictor /\ sam2.sam_points > 0 /\ current_image_path # None
       THEN sam2' = [sam2 EXCEPT !.predicting = TRUE]
       ELSE sam2' = sam2
    /\ UNCHANGED <<current_image_path, mask_directory, tool, drawing, view_drawing,
                   pan_mode, zoom>>
    /\ UNCHANGED <<fsVars, imVars, editVars, listVars, panelVars, vizVars, loaderVars,
                   threadVars, io>>

\* EnhancedMaskTracingInterface.apply_sam2_mask; the predicted mask may be empty
apply_sam2_mask ==
    LET s0 == IF mask_pixmap = "None" THEN [Editing EXCEPT !.mask = "transparent"]
              ELSE Editing
        s1 == save_for_undo(s0)
    IN  /\ \E m \in {s1.mask, "painted"} :
             /\ Budget([s1 EXCEPT !.mask = m])
             /\ SetEditing([s1 EXCEPT !.mask = m])
        /\ sam2' = [sam2 EXCEPT !.sam_points = 0, !.predicting = FALSE]

\* SAM2Controls.on_prediction_ready: the prediction thread delivered a mask
on_prediction_ready ==
    /\ sam2.predicting
    /\ Mark("new")
    /\ apply_sam2_mask
    /\ UNCHANGED <<current_image_path, mask_directory, tool, drawing, view_drawing,
                   pan_mode, zoom>>
    /\ UNCHANGED <<fsVars, imVars, listVars, panelVars, vizVars, loaderVars, threadVars, io>>

-----------------------------------------------------------------------------
(* ImageManager: lazy loading of processed images; the file list           *)

LazyModes == {"Basic View", "Overlay", "Side by Side"}
ViewModes == {"Single Image", "Overlay", "Side by Side", "Basic View"}

\* the path ImageManager.get_fake_image_path(name) probes: f"{name}_fake.png"
fake_path_of(name) == join(processed_base_path, Comp(name.base, "_fake", ".png"))

\* a faulty test that loads processed images in every view mode
lazy_loads_any_mode(name) ==
    /\ name \notin DOMAIN fake_images
    /\ processed_base_path # None
    /\ exists(fake_path_of(name))

\* whether get_fake_image_path(name) goes to the disk and finds the file
lazy_loads(name) ==
    /\ name \notin DOMAIN fake_images
    /\ current_view_mode \in LazyModes
    /\ processed_base_path # None
    /\ exists(fake_path_of(name))

\* the value ImageManager.get_fake_image_path(name) returns
get_fake_image_path(name) ==
    IF name \in DOMAIN fake_images THEN fake_images[name]
    ELSE IF lazy_loads(name) THEN fake_path_of(name)
    ELSE None

\* MainWindow.on_image_selected(item) while `panel` is the current right panel:
\* the tracing panel loads the image, any other panel hands the item to
\* DisplayController.display_selected_image
on_image_selected(name, panel) ==
    IF panel = "mask_tracing"
    THEN IF name \in DOMAIN images
         THEN /\ load_image(images[name])
              /\ UNCHANGED <<fake_images, has_fake_real_pairs>>
         ELSE \* get_image_path gives None: load_image(None) assigns
              \* current_image_path and raises at os.path.dirname(None)
              /\ current_image_path' = None
              /\ UNCHANGED <<editVars, mask_directory, tool, drawing, view_drawing,
                             pan_mode, zoom, sam2, fake_images, has_fake_real_pairs, io>>
    ELSE /\ io' = [io EXCEPT !.fake_lookup = get_fake_image_path(name)]
         /\ fake_images' = IF lazy_loads(name)
                           THEN [n \in DOMAIN fake_images \cup {name} |->
                                   IF n = name THEN fake_path_of(name) ELSE fake_images[n]]
                           ELSE fake_images
         /\ has_fake_real_pairs' = (has_fake_real_pairs \/ lazy_loads(name))
         /\ UNCHANGED <<editVars, traceVars>>

\* file_list.currentItem() is None: on_image_selected is not called
no_selection == UNCHANGED <<editVars, traceVars, fake_images, has_fake_real_pairs, io>>

\* a click on an item of the file list (QListWidget.itemClicked)
click_item(name) ==
    /\ name \in DOMAIN item_color
    /\ name \in DOMAIN images
    /\ Mark("select")
    /\ current_item' = {name}
    /\ on_image_selected(name, right_panel)
    /\ UNCHANGED <<fsVars, images, masks, html_path, original_folder, processed_base_path,
                   current_view_mode, file_list, item_color, view_mode_combo, panelVars,
                   vizVars, loaderVars, threadVars>>

Names == {Dir(b) : b \in Bases}

\* the sort key of populate_file_list: the first run of digits of the name
sort_key(name) == CASE name.base = "T1" -> 1 [] name.base = "T2" -> 2 [] OTHER -> 0

RECURSIVE sorted_names(_)
sorted_names(S) ==
    IF S = {} THEN << >>
    ELSE LET n == CHOOSE x \in S : \A y \in S : sort_key(x) <= sort_key(y)
         IN  <<n>> \o sorted_names(S \ {n})

\* MainWindow.populate_file_list for the images imgs: new items, none current
populate_file_list(imgs) ==
    /\ file_list' = sorted_names(DOMAIN imgs)
    /\ item_color' = [n \in DOMAIN imgs |-> "default"]
    /\ current_item' = {}

\* ImageManager.reload_for_view_mode
reload_for_view_mode(view_mode) ==
    /\ current_view_mode' = view_mode
    /\ IF view_mode = "Single Image"
       THEN fake_images' = << >> /\ has_fake_real_pairs' = FALSE
       ELSE UNCHANGED <<fake_images, has_fake_real_pairs>>
    /\ populate_file_list(images)

\* DisplayController.update_display_mode: the user picked another view mode
update_display_mode(view_mode) ==
    /\ view_mode # view_mode_combo
    /\ Mark("reload")
    /\ view_mode_combo' = view_mode
    /\ reload_for_view_mode(view_mode)
    /\ UNCHANGED <<fsVars, images, masks, html_path, original_folder, processed_base_path,
                   editVars, traceVars, panelVars, vizVars, loaderVars, threadVars, io>>

\* the mask file MainWindow.toggle_mask_tracing and load_image look for
own_mask_path(image_path) ==
    join(join(dirname(image_path), Dir("mask")), basename(image_path))

\* MainWindow.toggle_mask_tracing; a disconnect of a slot that is not connected
\* raises and ends the handler
toggle_mask_tracing ==
    /\ Mark("other")
    /\ IF right_panel # "mask_tracing"
       THEN /\ right_panel' = "mask_tracing"
            /\ connected' = connected + 1
            /\ item_color' =
                 [n \in DOMAIN item_color |->
                    IF n \notin DOMAIN images THEN item_color[n]
                    ELSE IF exists(own_mask_path(images[n])) \/ n \in DOMAIN masks
                    THEN "green" ELSE "white"]
            /\ IF current_item # {}
               THEN \E n \in current_item : on_image_selected(n, "mask_tracing")
               ELSE no_selection
       ELSE IF connected = 0
       THEN /\ right_panel' = "display"
            /\ UNCHANGED <<connected, item_color>>
            /\ no_selection
       ELSE /\ right_panel' = "display"
            /\ connected' = connected - 1
            /\ item_color' = [n \in DOMAIN item_color |-> "white"]
            /\ IF current_item # {}
               THEN \E n \in current_item : on_image_selected(n, "display")
               ELSE no_selection
    /\ UNCHANGED <<fsVars, images, masks, html_path, original_folder, processed_base_path,
                   current_view_mode, file_list, current_item, view_mode_combo, vizVars,
                   loaderVars, threadVars>>

-----------------------------------------------------------------------------
(* MaskGenerationHandler and MaskGenerationThread                          *)

\* MaskGenerationHandler.generate_masks with the model initialised; the first
\* image of the dict is any of them (the order of os.listdir).  The model
\* follows one thread at a time.
generate_masks ==
    /\ gen.pc # "run"
    /\ Mark("other")
    /\ IF DOMAIN images = {} THEN UNCHANGED <<gen, dirs>>
       ELSE \E n \in DOMAIN images :
              LET input_dir == dirname(images[n])
                  output_dir == join(input_dir, Dir("mask"))
              IN  /\ dirs' = dirs \cup {output_dir}
                  /\ gen' = [pc |-> "run", input_dir |-> input_dir,
                             output_dir |-> output_dir,
                             todo |-> {c \in listdir(input_dir) : IsImageName(c)},
                             attempted |-> {}, failed |-> {}, finished |-> 0,
                             error |-> 0]
    /\ UNCHANGED <<files, imVars, editVars, traceVars, listVars, panelVars, vizVars,
                   loaderVars, skel, calc, io>>

\* the path MaskGenerationThread.run saves the mask of `filename` to
generated_mask_path(output_dir, filename) == join(output_dir, PlusPng(splitext0(filename)))

\* a failure of one image that ends the loop
image_failure_ends_loop(g, filename) ==
    [g EXCEPT !.todo = {}, !.attempted = @ \cup {filename}, !.failed = @ \cup {filename}]

\* the except branch of the loop body: the error is printed, the loop goes on
image_failed(g, filename) ==
    [g EXCEPT !.todo = @ \ {filename}, !.attempted = @ \cup {filename},
              !.failed = @ \cup {filename}]

\* one iteration of the loop of MaskGenerationThread.run; ok: no exception
MaskGenerationThread_image(filename, ok) ==
    /\ gen.pc = "run"
    /\ filename \in gen.todo
    /\ Mark("other")
    /\ gen' = IF ok THEN [gen EXCEPT !.todo = @ \ {filename},
                                     !.attempted = @ \cup {filename}]
              ELSE image_failed(gen, filename)
    /\ IF ok
       THEN /\ files' = files \cup {generated_mask_path(gen.output_dir, filename)}
            /\ io' = [io EXCEPT !.generated = generated_mask_path(gen.output_dir, filename)]
       ELSE UNCHANGED <<files, io>>
    /\ UNCHANGED <<dirs, imVars, editVars, traceVars, listVars, panelVars, vizVars,
                   loaderVars, skel, calc>>

\* the end of MaskGenerationThread.run: finished.emit(output_dir)
MaskGenerationThread_finished ==
    /\ gen.pc = "run"
    /\ gen.todo = {}
    /\ Mark("other")
    /\ gen' = [gen EXCEPT !.pc = "done", !.finished = @ + 1]
    /\ UNCHANGED <<fsVars, imVars, editVars, traceVars, listVars, panelVars, vizVars,
                   loaderVars, skel, calc, io>>

\* MaskGenerationThread.run raises outside the loop body, before the first
\* image (os.listdir, the transforms): the outer handler emits error and run
\* returns
MaskGenerationThread_error ==
    /\ gen.pc = "run"
    /\ gen.attempted = {}
    /\ Mark("other")
    /\ gen' = [gen EXCEPT !.pc = "failed", !.error = @ + 1]
    /\ UNCHANGED <<fsVars, imVars, editVars, traceVars, listVars, panelVars, vizVars,
                   loaderVars, skel, calc, io>>

-----------------------------------------------------------------------------
(* SkeletonHandler.calculate_root_length and RootLengthCalculatorThread    *)

\* the directories calculate_root_length may settle on for base_folder: the first
\* existing potential path, else <test_latest>/images of find_test_latest_dir
skeleton_output_dirs(base_folder) ==
    LET p1 == join(join(join(join(base_folder, Dir("output")), Dir("skeletonizer")),
                        Dir("test_latest")), Dir("images"))
        p2 == join(join(join(base_folder, Dir("skeletonizer")), Dir("test_latest")),
                   Dir("images"))
        p3 == join(join(base_folder, Dir("test_latest")), Dir("images"))
    IN  IF exists(p1) THEN {p1}
        ELSE IF exists(p2) THEN {p2}
        ELSE IF exists(p3) THEN {p3}
        ELSE {d \in {join(t, Dir("images")) : t \in find_test_latest_dir(base_folder)} :
                exists(d)}

\* filename.endswith("_fake.png")
is_fake(c) == c.tag = "_fake" /\ c.ext = ".png"

\* base_folder of calculate_root_length: original_folder, else the directory of
\* the first image (any of them); none without images
base_folders ==
    IF original_folder # None THEN {original_folder}
    ELSE {dirname(images[n]) : n \in DOMAIN images}

\* SkeletonHandler.calculate_root_length
calculate_root_length ==
    /\ calc.pc # "run"
    /\ Mark("other")
    /\ IF base_folders = {} THEN UNCHANGED calc
       ELSE \E base_folder \in base_folders :
              LET found == skeleton_output_dirs(base_folder)
              IN  IF found = {} THEN UNCHANGED calc
                  ELSE \E output_dir \in found :
                         IF {c \in listdir(output_dir) : is_fake(c)} = {}
                         THEN UNCHANGED calc
                         ELSE calc' = [pc |-> "run",
                                       output_dir |-> dirname(output_dir),
                                       fake_images |-> {c \in listdir(output_dir) : is_fake(c)},
                                       todo |-> {c \in listdir(output_dir) : is_fake(c)},
                                       results |-> << >>, raised |-> {}, csv |-> << >>,
                                       out |-> << >>]
    /\ UNCHANGED <<fsVars, imVars, editVars, traceVars, listVars, panelVars, vizVars,
                   loaderVars, skel, gen, io>>

\* the path RootLengthCalculatorThread.run writes the CSV to
csv_path_of(output_dir) == join(dirname(output_dir), CsvName)

\* the value None of a number or text parsed from an image name
NoNumber == 0 - 1

\* RootLengthCalculatorThread.parse_image_name for the names of the model: the
\* number after the first "T", the number after the first "L"; none of the
\* names holds a date or a time
parse_image_name(name) ==
    [original_name |-> name,
     tube_number |-> CASE name.base \in {"T0_L2"} -> 0
                       [] name.base \in {"T1", "T1_L0", "T1_L1"} -> 1
                       [] name.base \in {"T2"} -> 2
                       [] OTHER -> NoNumber,
     length_position |-> CASE name.base \in {"T1_L0"} -> 0
                           [] name.base \in {"T1_L1", "X_L1"} -> 1
                           [] name.base \in {"T0_L2"} -> 2
                           [] OTHER -> NoNumber,
     date |-> NoNumber,
     time |-> NoNumber]

\* an error entry with a length that is not 0
error_entry_with_length(name) ==
    [Image |-> name, Tube |-> NoNumber, Position |-> NoNumber, Date |-> NoNumber,
     Time |-> NoNumber, Length |-> 5, Error |-> TRUE]

\* the entry of an image whose processing raised
error_entry(name) ==
    [Image |-> name, Tube |-> NoNumber, Position |-> NoNumber, Date |-> NoNumber,
     Time |-> NoNumber, Length |-> 0, Error |-> TRUE]

\* RootLengthCalculatorThread.run, one round of the loop for the skeleton image
\* c (the dict is walked in the order of os.listdir): the entry of the image,
\* with a length of 0 or more, and progress; or the error entry
RootLengthCalculatorThread_image(c, raises) ==
    /\ calc.pc = "run"
    /\ c \in calc.todo
    /\ Mark("other")
    /\ LET name == Dir(c.base)
           info == parse_image_name(name)
       IN  IF raises
           THEN calc' = [calc EXCEPT !.todo = @ \ {c},
                                     !.results = Append(@, error_entry(name)),
                                     !.raised = @ \cup {name}]
           ELSE \E total_length \in {0, 5} :
                  calc' = [calc EXCEPT !.todo = @ \ {c},
                                       !.results = Append(@,
                                           [Image |-> info.original_name,
                                            Tube |-> info.tube_number,
                                            Position |-> info.length_position,
                                            Date |-> info.date, Time |-> info.time,
                                            Length |-> total_length, Error |-> FALSE]),
                                       !.out = Append(@, "progress")]
    /\ UNCHANGED <<fsVars, imVars, editVars, traceVars, listVars, panelVars, vizVars,
                   loaderVars, skel, gen, io>>

\* the sort key of run: x["Tube"] or float("inf"), x["Date"] or "",
\* x["Time"] or "", x["Position"] or float("inf").  A number n is <<0, n>> and
\* float("inf") is <<1, 0>>; a text is its rank among the texts, "" is 0.
results_key(x) ==
    LET or_inf(v) == IF v = NoNumber \/ v = 0 THEN <<1, 0>> ELSE <<0, v>>
        or_empty(v) == IF v = NoNumber THEN 0 ELSE v
    IN  <<or_inf(x.Tube)[1], or_inf(x.Tube)[2], or_empty(x.Date), or_empty(x.Time),
          or_inf(x.Position)[1], or_inf(x.Position)[2]>>

\* the order of Python tuples
RECURSIVE key_less(_, _)
key_less(a, b) ==
    IF a = << >> THEN FALSE
    ELSE IF Head(a) # Head(b) THEN Head(a) < Head(b)
    ELSE key_less(Tail(a), Tail(b))

\* sorted(results, key=...): a stable sort
RECURSIVE sorted_results(_)
sorted_results(results) ==
    IF results = << >> THEN << >>
    ELSE LET n == Len(results)
             x == results[n]
             front == sorted_results(SubSeq(results, 1, n - 1))
             k == Cardinality({i \in 1..(n - 1) : ~key_less(results_key(x),
                                                            results_key(front[i]))})
         IN  SubSeq(front, 1, k) \o <<x>> \o SubSeq(front, k + 1, n - 1)

\* the row save_to_csv writes for an entry: the header fields only
csv_row(result) ==
    [Image |-> result.Image, Tube |-> result.Tube, Position |-> result.Position,
     Date |-> result.Date, Time |-> result.Time, Length |-> result.Length]

\* RootLengthCalculatorThread.run after the loop: the results are sorted and
\* saved, finished is emitted
RootLengthCalculatorThread_run ==
    /\ calc.pc = "run"
    /\ calc.todo = {}
    /\ Mark("other")
    /\ files' = files \cup {csv_path_of(calc.output_dir)}
    /\ io' = [io EXCEPT !.csv_written = csv_path_of(calc.output_dir)]
    /\ calc' = [calc EXCEPT !.pc = "done",
                            !.csv = [i \in 1..Len(calc.results) |->
                                       csv_row(sorted_results(calc.results)[i])],
                            !.out = @ \o <<"saved", "finished">>]
    /\ UNCHANGED <<dirs, imVars, editVars, traceVars, listVars, panelVars, vizVars,
                   loaderVars, skel, gen>>

-----------------------------------------------------------------------------
(* The root-length visualization panel of MainWindow                       *)

MaxViz == 2     \* RootLengthVisualization objects constructed in a run

\* the paths show_root_length_visualization may look the CSV up at
csv_lookup_paths ==
    IF file_list = << >> \/ file_list[1] \notin DOMAIN images THEN {}
    ELSE LET start_dir == dirname(images[file_list[1]])
             found == find_test_latest_dir(start_dir)
         IN  {join(base_path, CsvName) :
                base_path \in (IF found = {} THEN {start_dir} ELSE found)}

\* create_new_visualization of show_root_length_visualization:
\* RootLengthVisualization(csv_path) starts its server thread, which can bind
\* port 8050 only if no other server holds it; the object has no server_closed,
\* so the connect raises and the rest of the function is not run
create_new_visualization ==
    LET new == Cardinality(viz_objects) + 1
    IN  /\ new <= MaxViz
        /\ viz_objects' = viz_objects \cup {new}
        /\ root_length_viz' = new
        /\ dash_servers' = IF dash_servers = {} THEN {new} ELSE dash_servers

\* MainWindow.show_root_length_visualization: every exception is caught and
\* resets the button text
show_root_length_visualization ==
    IF file_list = << >>
    THEN UNCHANGED <<vizVars, right_panel, io>>
    ELSE /\ viz_button_text' = "Visualize Root Length"
         /\ right_panel' = right_panel
         /\ IF csv_lookup_paths = {}
            THEN UNCHANGED <<root_length_viz, viz_objects, dash_servers, io>>
            ELSE \E csv_path \in csv_lookup_paths :
                   /\ io' = [io EXCEPT !.csv_lookup = csv_path]
                   /\ IF ~exists(csv_path) \/ root_length_viz # 0
                      THEN UNCHANGED <<root_length_viz, viz_objects, dash_servers>>
                      ELSE create_new_visualization

\* MainWindow.close_root_length_visualization: the object has no cleanup_server,
\* so the handler of the exception finishes the function
close_root_length_visualization ==
    IF root_length_viz = 0
    THEN UNCHANGED <<vizVars, right_panel, io>>
    ELSE /\ viz_button_text' = "Visualize Root Length"
         /\ right_panel' = "display"
         /\ root_length_viz' = 0
         /\ UNCHANGED <<viz_objects, dash_servers, io>>

\* MainWindow.toggle_root_length_visualization (the button)
toggle_root_length_visualization ==
    /\ Mark("toggle")
    /\ IF root_length_viz # 0 /\ right_panel = "visualization"
       THEN close_root_length_visualization
       ELSE show_root_length_visualization
    /\ UNCHANGED <<fsVars, imVars, editVars, traceVars, listVars, connected, loaderVars,
                   threadVars>>

\* show_root_length_visualization and close_root_length_visualization called
\* on their own
Show ==
    /\ Mark("show")
    /\ show_root_length_visualization
    /\ UNCHANGED <<fsVars, imVars, editVars, traceVars, listVars, connected, loaderVars,
                   threadVars>>

Close ==
    /\ Mark("close")
    /\ close_root_length_visualization
    /\ UNCHANGED <<fsVars, imVars, editVars, traceVars, listVars, connected, loaderVars,
                   threadVars>>

-----------------------------------------------------------------------------
(* ImageLoaderThread and ImageManager.load_images                          *)

MaxLoads == 3   \* folder loads requested in a run

Folder2 == join(Root, Dir("data2"))      \* another folder the user may load

Restrict(f, S) == [x \in S |-> f[x]]

image_names(folder) == {c \in listdir(folder) : IsImageName(c)}

\* the images dict _load_from_folder(folder, ..., "single") builds
scan_images(folder) ==
    [n \in {splitext0(c) : c \in image_names(folder)} |->
       join(folder, CHOOSE c \in image_names(folder) : splitext0(c) = n)]

\* the masks dict of ImageLoaderThread.run
scan_masks(folder) ==
    IF exists(join(folder, Dir("mask")))
    THEN scan_images(join(folder, Dir("mask")))
    ELSE << >>

\* the progress values _load_from_folder emits for the first k of n files
scan_progress(k, n) ==
    [i \in 1..k |-> [sig |-> "progress", value |-> (i * 100) \div n]]

EmptyPayload ==
    [images |-> << >>, fake_images |-> << >>, masks |-> << >>, html_path |-> None,
     has_fake_real_pairs |-> FALSE]

\* a faulty handler that reports what was scanned before the exception
keep_payload(partial) == partial

\* the payload of the except branch of ImageLoaderThread.run
except_payload(partial) == EmptyPayload

running(t) == t.pc \in {"load", "progress", "finished"}

\* a faulty cancellation that leaves the previous loader alone
no_terminate(ls, i) == ls

\* if self.loader_thread is not None and self.loader_thread.isRunning():
\*     self.loader_thread.terminate(); self.loader_thread.wait()
terminate(ls, i) ==
    IF i # 0 /\ running(ls[i]) THEN [ls EXCEPT ![i].pc = "terminated"] ELSE ls

\* ImageManager._find_processed_base_path for original_folder = folder:
\* the new <<processed_base_path, html_path>> given the old ones
find_processed_base_path(folder, old_base, old_html) ==
    LET potential_path == join(join(join(join(folder, Dir("output")), Dir("skeletonizer")),
                                    Dir("test_latest")), Dir("images"))
        potential_html == join(dirname(potential_path), IndexHtml)
    IN  IF folder # None /\ exists(potential_path)
        THEN <<potential_path, IF exists(potential_html) THEN potential_html ELSE old_html>>
        ELSE <<old_base, old_html>>

\* MainWindow.load_images with the folder dir_name chosen in the dialog, and the
\* ImageManager.load_images(dir_name) it ends with
load_images(dir_name) ==
    /\ Len(loaders) < MaxLoads
    /\ Mark("load")
    /\ undo_stack' = << >>
    /\ redo_stack' = << >>
    /\ drawing' = FALSE
    /\ mask_pixmap' = (IF mask_pixmap # "None" THEN "transparent" ELSE "None")
    /\ original_folder' = dir_name
    /\ images' = << >>
    /\ fake_images' = << >>
    /\ masks' = << >>
    /\ has_fake_real_pairs' = FALSE
    /\ processed_base_path' = find_processed_base_path(dir_name, None, None)[1]
    /\ html_path' = find_processed_base_path(dir_name, None, None)[2]
    /\ loaders' = Append(terminate(loaders, loader_thread),
                         [folder |-> dir_name, pc |-> "load", ok |-> TRUE,
                          payload |-> EmptyPayload, out |-> << >>])
    /\ loader_thread' = Len(loaders) + 1
    /\ UNCHANGED <<fsVars, current_view_mode, current_image_path, mask_directory, tool,
                   view_drawing, pan_mode, zoom, sam2, listVars, panelVars, vizVars, ui_queue,
                   threadVars, io>>

\* ImageLoaderThread.run up to the emits: ok: nothing raised; else an exception
\* was raised after the images S were scanned
ImageLoaderThread_load(i, ok, S) ==
    /\ i \in DOMAIN loaders
    /\ loaders[i].pc = "load"
    /\ S \subseteq DOMAIN scan_images(loaders[i].folder)
    /\ ok => S = DOMAIN scan_images(loaders[i].folder)
    /\ Mark("other")
    /\ LET folder == loaders[i].folder
           scanned == [EmptyPayload EXCEPT !.images = Restrict(scan_images(folder), S),
                                           !.masks = IF ok THEN scan_masks(folder)
                                                     ELSE << >>]
       IN  loaders' = [loaders EXCEPT ![i] =
                         [@ EXCEPT !.pc = "progress", !.ok = ok,
                                   !.payload = IF ok THEN scanned
                                               ELSE except_payload(scanned),
                                   !.out = scan_progress(Cardinality(S),
                                             Cardinality(image_names(folder)))]]
    /\ UNCHANGED <<fsVars, imVars, editVars, traceVars, listVars, panelVars, vizVars,
                   loader_thread, ui_queue, threadVars, io>>

\* self.progress.emit(100), in the try block or in the except block
ImageLoaderThread_progress(i) ==
    /\ i \in DOMAIN loaders
    /\ loaders[i].pc = "progress"
    /\ Mark("other")
    /\ loaders' = [loaders EXCEPT ![i].pc = "finished",
                                  ![i].out = Append(@, [sig |-> "progress", value |-> 100])]
    /\ UNCHANGED <<fsVars, imVars, editVars, traceVars, listVars, panelVars, vizVars,
                   loader_thread, ui_queue, threadVars, io>>

\* self.finished.emit(...): the signal is queued for the UI thread
ImageLoaderThread_finished(i) ==
    /\ i \in DOMAIN loaders
    /\ loaders[i].pc = "finished"
    /\ Mark("other")
    /\ loaders' = [loaders EXCEPT ![i].pc = "done",
                                  ![i].out = Append(@, [sig |-> "finished", value |-> 0])]
    /\ ui_queue' = Append(ui_queue, [thread |-> i, payload |-> loaders[i].payload])
    /\ UNCHANGED <<fsVars, imVars, editVars, traceVars, listVars, panelVars, vizVars,
                   loader_thread, threadVars, io>>

\* ImageManager.on_loading_finished and MainWindow.on_loading_finished for the
\* oldest queued finished signal
on_loading_finished ==
    /\ ui_queue # << >>
    /\ Mark("other")
    /\ images' = Head(ui_queue).payload.images
    /\ masks' = Head(ui_queue).payload.masks
    /\ populate_file_list(Head(ui_queue).payload.images)
    /\ ui_queue' = Tail(ui_queue)
    /\ UNCHANGED <<fsVars, fake_images, has_fake_real_pairs, html_path, original_folder,
                   processed_base_path, current_view_mode, view_mode_combo, editVars,
                   traceVars, panelVars, vizVars, loaders, loader_thread, threadVars, io>>

-----------------------------------------------------------------------------
(* GenerateSkeletonHandler and SkeletonGeneratorThread                     *)

MaxLines == 2   \* output lines of the inference script that are read

Signal(sig, value, path) == [sig |-> sig, value |-> value, path |-> path]

\* a faulty end of run that does not look at the return code
exit_signals_any_rc(rc, html, results_dir) ==
    IF html THEN <<Signal("progress", 100, None), Signal("finished", 0, results_dir)>>
    ELSE <<Signal("error", 0, None)>>

\* what SkeletonGeneratorThread.run emits after process.wait(): rc is the return
\* code, html whether <results_dir>/index.html exists
exit_signals(rc, html, results_dir) ==
    IF rc # 0 THEN <<Signal("error", 0, None)>>
    ELSE IF html
    THEN <<Signal("progress", 100, None), Signal("finished", 0, results_dir)>>
    ELSE <<Signal("error", 0, None)>>

\* GenerateSkeletonHandler.generate_skeleton with input_dir chosen in the dialog.
\* The model follows one thread at a time: a generation is started when the
\* previous run has ended and its signals have been handled.
generate_skeleton(input_dir) ==
    /\ skel.pc \in {"idle", "done"}
    /\ skel.seen = Len(skel.out)
    /\ Mark("other")
    /\ dirs' = dirs \cup {join(input_dir, Dir("output"))}
    /\ skel' = [pc |-> "popen", output_dir |-> join(input_dir, Dir("output")),
                lines |-> 0, rc |-> 0, html |-> FALSE, out |-> << >>, seen |-> 0]
    /\ UNCHANGED <<files, imVars, editVars, traceVars, listVars, panelVars, vizVars,
                   loaderVars, calc, gen, io>>

\* subprocess.Popen: it starts the script or raises
SkeletonGeneratorThread_popen(ok) ==
    /\ skel.pc = "popen"
    /\ Mark("other")
    /\ skel' = IF ok THEN [skel EXCEPT !.pc = "read"]
               ELSE [skel EXCEPT !.pc = "done",
                                 !.out = Append(@, Signal("error", 0, None))]
    /\ UNCHANGED <<fsVars, imVars, editVars, traceVars, listVars, panelVars, vizVars,
                   loaderVars, calc, gen, io>>

\* one line of the script's output: value is the percentage of a 'Progress: N%'
\* line, -1 for any other line; raises: reading or emitting raised
SkeletonGeneratorThread_line(value, raises) ==
    /\ skel.pc = "read"
    /\ skel.lines < MaxLines
    /\ Mark("other")
    /\ skel' = IF raises
               THEN [skel EXCEPT !.pc = "done",
                                 !.out = Append(@, Signal("error", 0, None))]
               ELSE [skel EXCEPT !.lines = @ + 1,
                                 !.out = IF value >= 0
                                         THEN Append(@, Signal("progress", value, None))
                                         ELSE @]
    /\ UNCHANGED <<fsVars, imVars, editVars, traceVars, listVars, panelVars, vizVars,
                   loaderVars, calc, gen, io>>

\* what the script left under output_dir when it ended
script_output(output_dir, made) ==
    LET skeletonizer == join(output_dir, Dir("skeletonizer"))
        test_latest == join(skeletonizer, Dir("test_latest"))
        images_dir == join(test_latest, Dir("images"))
    IN  [dirs |-> IF made = "nothing" THEN {} ELSE {skeletonizer, test_latest, images_dir},
         files |-> IF made = "all" THEN {join(test_latest, IndexHtml)} ELSE {}]

\* end of the script's output, process.wait() and the rest of run
SkeletonGeneratorThread_exit(rc, made) ==
    /\ skel.pc = "read"
    /\ Mark("other")
    /\ dirs' = dirs \cup script_output(skel.output_dir, made).dirs
    /\ files' = files \cup script_output(skel.output_dir, made).files
    /\ LET results_dir == join(join(skel.output_dir, Dir("skeletonizer")), Dir("test_latest"))
           html == join(results_dir, IndexHtml) \in files'
       IN  skel' = [skel EXCEPT !.pc = "done", !.rc = rc, !.html = html,
                                !.out = @ \o exit_signals(rc, html, results_dir)]
    /\ UNCHANGED <<imVars, editVars, traceVars, listVars, panelVars, vizVars,
                   loaderVars, calc, gen, io>>

\* MainWindow.load_results(results_dir)
load_results(results_dir) ==
    IF join(results_dir, Dir("images")) \notin dirs
    THEN UNCHANGED <<processed_base_path, html_path>>
    ELSE /\ processed_base_path' =
              find_processed_base_path(original_folder, processed_base_path, html_path)[1]
         /\ html_path' = IF exists(join(results_dir, IndexHtml))
                         THEN join(results_dir, IndexHtml) ELSE None

\* the UI thread handles the next signal of the thread: update_progress,
\* on_generation_finished (which loads the results) or on_generation_error
on_generation_signal ==
    /\ skel.seen < Len(skel.out)
    /\ Mark("other")
    /\ skel' = [skel EXCEPT !.seen = @ + 1]
    /\ IF skel.out[skel.seen + 1].sig = "finished"
       THEN load_results(skel.out[skel.seen + 1].path)
       ELSE UNCHANGED <<processed_base_path, html_path>>
    /\ UNCHANGED <<fsVars, images, masks, fake_images, has_fake_real_pairs, original_folder,
                   current_view_mode, editVars, traceVars, listVars, panelVars, vizVars,
                   loaderVars, calc, gen, io>>

-----------------------------------------------------------------------------
(* Initial states                                                          *)

ImageFile(b, e) == join(Folder, Comp(b, "", e))

\* the log of an ImageLoaderThread that loaded `folder` and ended
loaded_thread(folder) ==
    [folder |-> folder, pc |-> "done", ok |-> TRUE,
     payload |-> [EmptyPayload EXCEPT !.images = scan_images(folder),
                                      !.masks = scan_masks(folder)],
     out |-> scan_progress(Cardinality(image_names(folder)),
                           Cardinality(image_names(folder)))
               \o <<[sig |-> "progress", value |-> 100], [sig |-> "finished", value |-> 0]>>]

\* The state of the application started on the file system <<ds, fs>>: after
\* MainWindow.__init__ when folder is None, else after folder was loaded and
\* `panel` was made the right panel; predictor: the SAM2 model is loaded.
Started(ds, fs, folder, panel, predictor) ==
    /\ dirs = ds
    /\ files = fs
    /\ images = (IF folder = None THEN << >> ELSE scan_images(folder))
    /\ masks = (IF folder = None THEN << >> ELSE scan_masks(folder))
    /\ fake_images = << >>
    /\ has_fake_real_pairs = FALSE
    /\ html_path = find_processed_base_path(folder, None, None)[2]
    /\ original_folder = folder
    /\ processed_base_path = find_processed_base_path(folder, None, None)[1]
    /\ current_view_mode = "None"
    /\ current_image_path = None
    /\ mask_directory = None
    /\ mask_pixmap = "None"
    /\ undo_stack = << >>
    /\ redo_stack = << >>
    /\ tool = "brush"
    /\ drawing = FALSE
    /\ view_drawing = FALSE
    /\ pan_mode = FALSE
    /\ zoom = InitZoom
    /\ sam2 = [predictor |-> predictor, sam_points |-> 0, generated_masks |-> FALSE,
               auto_select_mode |-> FALSE, predicting |-> FALSE]
    /\ file_list = sorted_names(DOMAIN images)
    /\ item_color = [n \in DOMAIN images |->
                       IF panel # "mask_tracing" THEN "default"
                       ELSE IF exists(own_mask_path(images[n])) \/ n \in DOMAIN masks
                       THEN "green" ELSE "white"]
    /\ current_item = {}
    /\ view_mode_combo = "Single Image"
    /\ right_panel = panel
    /\ viz_button_text = "Visualize Root Length"
    /\ root_length_viz = 0
    /\ viz_objects = {}
    /\ dash_servers = {}
    /\ connected = (IF panel = "mask_tracing" THEN 1 ELSE 0)
    /\ loaders = (IF folder = None THEN << >> ELSE <<loaded_thread(folder)>>)
    /\ loader_thread = (IF folder = None THEN 0 ELSE 1)
    /\ ui_queue = << >>
    /\ skel = [pc |-> "idle", output_dir |-> None, lines |-> 0, rc |-> 0, html |-> FALSE,
               out |-> << >>, seen |-> 0]
    /\ calc = [pc |-> "idle", output_dir |-> None, fake_images |-> {}, todo |-> {},
               results |-> << >>, raised |-> {}, csv |-> << >>, out |-> << >>]
    /\ gen = [pc |-> "idle", input_dir |-> None, output_dir |-> None, todo |-> {},
              attempted |-> {}, failed |-> {}, finished |-> 0, error |-> 0]
    /\ io = [saved |-> None, generated |-> None, mask_read |-> None,
             csv_written |-> None, csv_lookup |-> None, fake_lookup |-> None]
    /\ last = [op |-> "init", had_redo |-> FALSE, full |-> FALSE]

\* Folder with the images ext (base -> extension), the directories of layout
\* with their skeleton images, and the files extra, loaded
Loaded(layout, ext, panel, predictor, extra) ==
    Started(layout,
            {ImageFile(b, ext[b]) : b \in DOMAIN ext}
                \cup SkeletonFiles(layout, DOMAIN ext) \cup extra,
            Folder, panel, predictor)

-----------------------------------------------------------------------------
(* The mask tracing panel: strokes, fills, clear, SAM2, undo and redo      *)

Buttons == {"left", "right", "middle"}
Tools == {"brush", "eraser", "fill"}

InitTracing ==
    Loaded(BareLayout, [b \in {"T1"} |-> ".png"], "mask_tracing", TRUE, {})

NextTracing ==
    \/ \E n \in Names : click_item(n)
    \/ \E b \in Buttons, ctrl \in BOOLEAN, hit \in BOOLEAN : enhanced_mouse_press(b, ctrl, hit)
    \/ \E left \in BOOLEAN : mouseMoveEvent(left)
    \/ \E b \in Buttons : mouseReleaseEvent(b)
    \/ \E t \in Tools : select_tool(t)
    \/ clear_mask
    \/ undo
    \/ redo
    \/ predict_mask
    \/ on_prediction_ready

SpecTracing == InitTracing /\ [][NextTracing]_vars

(* C3: after any sequence of strokes, fills, clear_mask, SAM2 mask applications,
   undo and redo, the undo stack and the redo stack each hold at most
   max_stack_size entries, and a push onto a full undo stack drops the oldest
   entries: what remains are the newer entries, in order, followed by the pushed
   copies of the mask (a fill saves the mask twice). *)
StacksBoundedOldestDropped ==
    /\ [](Len(undo_stack) <= max_stack_size /\ Len(redo_stack) <= max_stack_size)
    /\ [][(last'.op = "new" /\ last'.full) =>
            \E k \in 1..2 :
                undo_stack' = SubSeq(undo_stack, k + 1, max_stack_size)
                                 \o [i \in 1..k |-> mask_pixmap]]_vars

\* a new action was pushed onto a full undo stack, and the transparent pixmap
\* the image started with is no longer in the stack
OverflowDroppedOldest ==
    /\ last.op = "new" /\ last.full
    /\ Len(undo_stack) = max_stack_size
    /\ \A i \in DOMAIN undo_stack : undo_stack[i] = "painted"

(* C4: every new mask-modifying action recorded through save_for_undo with a mask
   present leaves the redo stack empty, so that a redo issued directly after it
   changes neither the mask nor the stacks. *)
NewActionClearsRedo ==
    [][last'.op = "new" =>
         (redo_stack' = << >> /\ redo_of(Editing') = Editing')]_vars

\* a new action was recorded while the redo stack held entries
NewActionAfterUndo ==
    last.op = "new" /\ last.had_redo /\ redo_stack = << >>

-----------------------------------------------------------------------------
(* Masks on disk: saving, clearing, loading and generating                 *)

InitMasks ==
    \E e \in {".png", ".jpg", ".jpeg"} : Loaded(BareLayout, [b \in {"T1"} |-> e], "mask_tracing", FALSE, {})

NextMasks ==
    \/ \E n \in Names : click_item(n)
    \/ save_mask
    \/ clear_mask
    \/ generate_masks
    \/ \E c \in {Comp(b, "", e) : b \in Bases, e \in Exts}, ok \in BOOLEAN :
         MaskGenerationThread_image(c, ok)
    \/ MaskGenerationThread_finished

SpecMasks == InitMasks /\ [][NextMasks]_vars

(* C1: the mask of every image file <name>.<ext> of the loaded folder is
   addressed as mask/<name>.png: the path save_mask writes, the path
   MaskGenerationThread writes and the path load_image reads an existing mask
   from are all the mask/<name>.png of an image of the folder. *)
MaskPathConvention ==
    LET mask_png(image_path) ==
            join(join(dirname(image_path), Dir("mask")),
                 PlusPng(splitext0(basename(image_path))))
        conventional == {mask_png(images[n]) : n \in DOMAIN images}
    IN  /\ io.saved # None => io.saved \in conventional
        /\ io.generated # None => io.generated \in conventional
        /\ io.mask_read # None => io.mask_read \in conventional

-----------------------------------------------------------------------------
(* The main window: root length calculation and visualization              *)

InitMain ==
    \E layout \in {StandardLayout, FlatLayout}, csv \in BOOLEAN :
        Loaded(layout, [b \in Bases |-> ".png"], "display", FALSE,
               IF ~csv THEN {}
               ELSE {join(IF layout = StandardLayout THEN TestLatestDir
                          ELSE FlatTestLatestDir, CsvName)})

NextMain ==
    \/ calculate_root_length
    \/ \E c \in {Comp(b, "_fake", ".png") : b \in Bases}, raises \in BOOLEAN :
         RootLengthCalculatorThread_image(c, raises)
    \/ RootLengthCalculatorThread_run
    \/ toggle_root_length_visualization
    \/ Show
    \/ Close
    \/ toggle_mask_tracing
    \/ \E n \in Names : click_item(n)

SpecMain == InitMain /\ [][NextMain]_vars

(* C2: for a loaded folder with the standard layout
   <folder>/output/skeletonizer/test_latest/images, the root_lengths.csv path
   that the calculation writes is the path that the visualization looks up. *)
CsvWrittenWhereLookedUp ==
    (ImagesDir \in dirs /\ io.csv_written # None /\ io.csv_lookup # None)
        => io.csv_written = io.csv_lookup

(* C9: toggle_root_length_visualization alternates: with images loaded, the CSV
   present and no visualization, a toggle makes a RootLengthVisualization the
   current right-panel widget with button text 'Close Visualization'; with the
   visualization shown, a toggle returns the right panel to the display panel
   with root_length_viz None and button text 'Visualize Root Length'. *)
ToggleAlternates ==
    [][last'.op = "toggle" =>
         /\ (root_length_viz = 0 /\ \E p \in csv_lookup_paths : exists(p))
              => /\ root_length_viz' # 0
                 /\ right_panel' = "visualization"
                 /\ viz_button_text' = "Close Visualization"
         /\ (root_length_viz # 0 /\ right_panel = "visualization")
              => /\ root_length_viz' = 0
                 /\ right_panel' = "display"
                 /\ viz_button_text' = "Visualize Root Length"]_vars

(* C10: at most one Dash server for port 8050 is live at any time, and a new
   RootLengthVisualization is constructed only after the server of the previous
   one has been shut down, after any sequence of show, close and toggle. *)
OneDashServer ==
    /\ [](Cardinality(dash_servers) <= 1)
    /\ [][viz_objects' # viz_objects => dash_servers = {}]_vars

-----------------------------------------------------------------------------
(* View modes and the lazy loading of processed images                     *)

InitView ==
    \E layout \in {StandardLayout, BareLayout} :
        Loaded(layout, [b \in Bases |-> ".png"], "display", FALSE, {})

NextView ==
    \/ \E m \in ViewModes : update_display_mode(m)
    \/ \E n \in Names : click_item(n)
    \/ toggle_mask_tracing

SpecView == InitView /\ [][NextView]_vars

(* C8: after reload_for_view_mode('Single Image'), and for as long as the view
   mode stays 'Single Image', fake_images is empty, has_fake_real_pairs is False
   and get_fake_image_path returns None for every name, also for the image that
   was just selected. *)
SingleImageHasNoFakes ==
    current_view_mode = "Single Image" =>
        /\ fake_images = << >>
        /\ ~has_fake_real_pairs
        /\ \A n \in Names : get_fake_image_path(n) = None
        /\ (last.op = "select" /\ right_panel # "mask_tracing") => io.fake_lookup = None

\* an image whose processed image is on the disk was selected in the display
\* panel while the view mode was 'Single Image'
SelectedInSingleImage ==
    /\ current_view_mode = "Single Image"
    /\ last.op = "select"
    /\ right_panel = "display"
    /\ \E n \in current_item : processed_base_path # None /\ exists(fake_path_of(n))

-----------------------------------------------------------------------------
(* Loading folders                                                         *)

InitLoader ==
    Started({Root, Folder, MaskDir, Folder2},
            {ImageFile("T1", ".png"), ImageFile("T2", ".jpg"),
             join(MaskDir, Comp("T1", "", ".png")),
             join(Folder2, Comp("T2", "", ".png"))},
            None, "display", FALSE)

NextLoader ==
    \/ \E d \in {Folder, Folder2} : load_images(d)
    \/ \E i \in 1..MaxLoads, ok \in BOOLEAN, S \in SUBSET Names :
         ImageLoaderThread_load(i, ok, S)
    \/ \E i \in 1..MaxLoads : ImageLoaderThread_progress(i)
    \/ \E i \in 1..MaxLoads : ImageLoaderThread_finished(i)
    \/ on_loading_finished

SpecLoader == InitLoader /\ [][NextLoader]_vars

(* C5: every run of ImageLoaderThread emits finished at most once and, once it
   has ended, exactly once, as its last signal and directly after
   progress(100), both when loading succeeds and when it raises; after an
   exception the payload of finished is empty. *)
LoaderFinishesOnce ==
    \A i \in DOMAIN loaders :
        LET o == loaders[i].out
            fin == {k \in DOMAIN o : o[k].sig = "finished"}
        IN  /\ Cardinality(fin) <= 1
            /\ \A k \in fin : k > 1 /\ o[k - 1] = [sig |-> "progress", value |-> 100]
            /\ loaders[i].pc = "done" => fin = {Len(o)}
            /\ ~loaders[i].ok => loaders[i].payload = EmptyPayload
            /\ \A k \in DOMAIN ui_queue :
                 (ui_queue[k].thread = i /\ ~loaders[i].ok)
                     => ui_queue[k].payload = EmptyPayload

\* one run ended after an exception that was raised when an image had been
\* scanned, another run ended without one
LoaderEndedBothWays ==
    /\ \E i \in DOMAIN loaders :
         loaders[i].pc = "done" /\ ~loaders[i].ok /\ Len(loaders[i].out) = 3
    /\ \E i \in DOMAIN loaders :
         loaders[i].pc = "done" /\ loaders[i].ok /\ loaders[i].payload.images # << >>

(* C6: at most one ImageLoaderThread is running at any time: load_images
   terminates a loader that is still running before it starts the new one. *)
OneLoaderRunning ==
    Cardinality({i \in DOMAIN loaders : running(loaders[i])}) <= 1

\* a load was requested while the previous loader was running
LoadDuringLoad ==
    \E i, j \in DOMAIN loaders :
        loaders[i].pc = "terminated" /\ running(loaders[j])

-----------------------------------------------------------------------------
(* Generating skeletons                                                    *)

InitSkel ==
    \E layout \in {BareLayout, StandardLayout} :
        Loaded(layout, [b \in Bases |-> ".png"], "display", FALSE, {})

NextSkel ==
    \/ generate_skeleton(Folder)
    \/ \E ok \in BOOLEAN : SkeletonGeneratorThread_popen(ok)
    \/ \E value \in {-1, 50, 100}, raises \in BOOLEAN :
         SkeletonGeneratorThread_line(value, raises)
    \/ \E rc \in {0, 1}, made \in {"nothing", "images", "all"} :
         SkeletonGeneratorThread_exit(rc, made)
    \/ on_generation_signal
    \/ \E n \in Names : click_item(n)

SpecSkel == InitSkel /\ [][NextSkel]_vars

(* C7: each run of SkeletonGeneratorThread emits at most one of finished and
   error and, once it has ended, exactly one; finished is emitted only when the
   subprocess returned 0 and <output_dir>/skeletonizer/test_latest/index.html
   exists, it carries that results directory, and progress(100) is emitted
   directly before it. *)
SkeletonRunOutcome ==
    LET o == skel.out
        fin == {k \in DOMAIN o : o[k].sig = "finished"}
        err == {k \in DOMAIN o : o[k].sig = "error"}
        results_dir == join(join(skel.output_dir, Dir("skeletonizer")), Dir("test_latest"))
    IN  /\ Cardinality(fin) + Cardinality(err) <= 1
        /\ skel.pc = "done" => Cardinality(fin) + Cardinality(err) = 1
        /\ \A k \in fin :
             /\ skel.rc = 0
             /\ skel.html /\ join(results_dir, IndexHtml) \in files
             /\ o[k].path = results_dir
             /\ k > 1 /\ o[k - 1] = Signal("progress", 100, None)

\* a run that reported progress ended with finished
SkeletonRunFinished ==
    /\ skel.pc = "done"
    /\ Len(skel.out) > 2
    /\ skel.out[Len(skel.out)].sig = "finished"

-----------------------------------------------------------------------------
(* Pan mode of the mask tracing graphics view                              *)

InitPan ==
    Loaded(BareLayout, [b \in {"T1"} |-> ".png"], "mask_tracing", TRUE, {})

NextPan ==
    \/ \E n \in Names : click_item(n)
    \/ \E b \in Buttons, ctrl \in BOOLEAN, hit \in BOOLEAN : enhanced_mouse_press(b, ctrl, hit)
    \/ \E left \in BOOLEAN : mouseMoveEvent(left)
    \/ \E b \in Buttons : mouseReleaseEvent(b)
    \/ \E t \in Tools : select_tool(t)
    \/ toggle_mode

SpecPan == InitPan /\ [][NextPan]_vars

(* C11: while the graphics view is in pan mode, a mouse press (handled by
   enhanced_mouse_press, with or without Ctrl and in any SAM2 state), a mouse
   move and a mouse release change neither the mask pixmap, the undo and redo
   stacks, the SAM2 prompt points nor the drawing flags. *)
PanModeOnlyPans ==
    [][(/\ pan_mode
        /\ \/ \E b \in Buttons, ctrl \in BOOLEAN, hit \in BOOLEAN :
                enhanced_mouse_press(b, ctrl, hit)
           \/ \E left \in BOOLEAN : mouseMoveEvent(left)
           \/ \E b \in Buttons : mouseReleaseEvent(b))
        => /\ UNCHANGED <<mask_pixmap, undo_stack, redo_stack, drawing, view_drawing>>
           /\ sam2'.sam_points = sam2.sam_points]_vars

-----------------------------------------------------------------------------
(* Wheel events on the mask tracing view                                   *)

\* a wheel event on the graphics view; ctrl: the modifiers are exactly Ctrl,
\* up: angleDelta().y() > 0
wheelEvent(ctrl, up) ==
    /\ zoom.wheels < MaxWheel
    /\ Mark("wheel")
    /\ zoom' = [view_wheelEvent(zoom, view_drawing, ctrl, up) EXCEPT !.wheels = @ + 1]
    /\ UNCHANGED <<current_image_path, mask_directory, tool, drawing, view_drawing,
                   pan_mode, sam2>>
    /\ UNCHANGED <<fsVars, imVars, editVars, listVars, panelVars, vizVars, loaderVars,
                   threadVars, io>>

\* MaskTracingInterface.keyPressEvent with Key_B
keyPressEvent_B ==
    /\ Mark("other")
    /\ zoom' = [zoom EXCEPT !.b_key_pressed = ~@]
    /\ UNCHANGED <<current_image_path, mask_directory, tool, drawing, view_drawing,
                   pan_mode, sam2>>
    /\ UNCHANGED <<fsVars, imVars, editVars, listVars, panelVars, vizVars, loaderVars,
                   threadVars, io>>

InitZoomSpec ==
    Loaded(BareLayout, [b \in {"T1"} |-> ".png"], "mask_tracing", FALSE, {})

NextZoom ==
    \/ \E n \in Names : click_item(n)
    \/ \E b \in Buttons : enhanced_mouse_press(b, FALSE, FALSE)
    \/ \E b \in Buttons : mouseReleaseEvent(b)
    \/ \E ctrl \in BOOLEAN, up \in BOOLEAN : wheelEvent(ctrl, up)
    \/ keyPressEvent_B

SpecZoom == InitZoomSpec /\ [][NextZoom]_vars

(* C12: while a stroke is in progress (graphics_view.drawing), a wheel event,
   with or without Ctrl and including its delivery to
   MaskTracingInterface.wheelEvent, changes neither the scroll position nor
   the zoom level: the zoom slider, both zoom factors and the view transform
   stay as they were. *)
WheelDuringStrokeKeepsView ==
    [][(view_drawing /\ \E ctrl \in BOOLEAN, up \in BOOLEAN : wheelEvent(ctrl, up))
        => /\ zoom'.scroll = zoom.scroll
           /\ zoom'.zoom_slider = zoom.zoom_slider
           /\ zoom'.zoom_factor = zoom.zoom_factor
           /\ zoom'.view_zoom = zoom.view_zoom
           /\ zoom'.transform = zoom.transform]_vars

-----------------------------------------------------------------------------
(* C13: on_mask_saved, on_mask_cleared and on_b_key_status_changed are
   connected to the signals of the tracing interface exactly once while the
   mask tracing panel is the current right-panel widget, and are not connected
   while another panel is current, after any interleaving of
   toggle_mask_tracing with showing and closing the visualization. *)
SlotsConnectedIffTracing ==
    connected = (IF right_panel = "mask_tracing" THEN 1 ELSE 0)

-----------------------------------------------------------------------------
(* The mask status colours of the file list                                *)

\* the save and clear buttons belong to the tracing panel and are pressed while
\* it is shown

InitColours ==
    \E with_mask \in BOOLEAN :
        Started(BareLayout \cup {MaskDir},
                {ImageFile("T1", ".png")}
                    \cup (IF with_mask THEN {join(MaskDir, Comp("T1", "", ".png"))} ELSE {}),
                Folder, "display", FALSE)

NextColours ==
    \/ \E n \in Names : click_item(n)
    \/ right_panel = "mask_tracing" /\ save_mask
    \/ right_panel = "mask_tracing" /\ clear_mask
    \/ toggle_mask_tracing
    \/ load_images(Folder)
    \/ \E i \in 1..MaxLoads, ok \in BOOLEAN, S \in SUBSET Names :
         ImageLoaderThread_load(i, ok, S)
    \/ \E i \in 1..MaxLoads : ImageLoaderThread_progress(i)
    \/ \E i \in 1..MaxLoads : ImageLoaderThread_finished(i)
    \/ on_loading_finished

SpecColours == InitColours /\ [][NextColours]_vars

(* C14: while the mask tracing panel is shown, the file-list item of an image
   is green exactly when the mask file of that image exists, after any
   sequence of save_mask, clear_mask, folder loads and leaving and re-entering
   the tracing view. *)
GreenIffMaskExists ==
    right_panel = "mask_tracing" =>
        \A n \in DOMAIN images \cap DOMAIN item_color :
            (item_color[n] = "green") <=> exists(own_mask_path(images[n]))

-----------------------------------------------------------------------------
(* The root length calculation thread and its CSV                          *)

\* the names of the skeleton images of a run, and how many a run has at most
CalcBases == {"T0_L2", "T1_L0", "T1_L1", "X_L1", "T2"}
MaxImages == 3

InitCalc ==
    \E S \in SUBSET CalcBases :
        /\ S # {}
        /\ Cardinality(S) <= MaxImages
        /\ Loaded(StandardLayout, [b \in S |-> ".png"], "display", FALSE, {})

NextCalc ==
    \/ calculate_root_length
    \/ \E c \in {Comp(b, "_fake", ".png") : b \in CalcBases}, raises \in BOOLEAN :
         RootLengthCalculatorThread_image(c, raises)
    \/ RootLengthCalculatorThread_run

SpecCalc == InitCalc /\ [][NextCalc]_vars

(* C15: RootLengthCalculatorThread.run writes exactly one CSV row per skeleton
   image; the row of an image whose processing raised has Length 0 and no row
   carries an Error field; every image is processed whatever raised before it;
   finished is emitted at most once, exactly once by the end of the run, and
   directly after the CSV has been saved. *)
OneRowPerSkeletonImage ==
    LET finished == {i \in DOMAIN calc.out : calc.out[i] = "finished"}
        n == Len(calc.out)
    IN  /\ Cardinality(finished) <= 1
        /\ finished # {} => calc.pc = "done"
        /\ calc.pc = "done" =>
             /\ Len(calc.csv) = Cardinality(calc.fake_images)
             /\ \A c \in calc.fake_images :
                  Cardinality({i \in DOMAIN calc.csv :
                                 calc.csv[i].Image = Dir(c.base)}) = 1
             /\ \A i \in DOMAIN calc.csv :
                  /\ DOMAIN calc.csv[i] =
                       {"Image", "Tube", "Position", "Date", "Time", "Length"}
                  /\ calc.csv[i].Image \in calc.raised => calc.csv[i].Length = 0
             /\ n >= 2 /\ calc.out[n - 1] = "saved" /\ calc.out[n] = "finished"
             /\ exists(csv_path_of(calc.output_dir))

\* a finished run of three images, the first of which raised
RunWithFailedImage ==
    /\ calc.pc = "done"
    /\ Len(calc.results) = 3
    /\ calc.results[1].Error
    /\ ~calc.results[2].Error
    /\ calc.results[3].Length = 5

(* C16: the rows of root_lengths.csv are in ascending order of
   (Tube, Date, Time, Position), a row whose tube number (or position) could
   not be parsed coming after every row with a parsed one; a parsed 0 is a
   number like any other. *)
CsvRowsAscending ==
    LET number_last(v) == IF v = NoNumber THEN <<1, 0>> ELSE <<0, v>>
        text(v) == IF v = NoNumber THEN 0 ELSE v
        ascending_key(x) ==
            <<number_last(x.Tube)[1], number_last(x.Tube)[2], text(x.Date), text(x.Time),
              number_last(x.Position)[1], number_last(x.Position)[2]>>
    IN  calc.pc = "done" =>
            \A i, j \in DOMAIN calc.csv :
                i < j => ~key_less(ascending_key(calc.csv[j]), ascending_key(calc.csv[i]))

-----------------------------------------------------------------------------
(* The mask generation thread                                              *)

InitGen ==
    \E ext \in [Bases -> {".png", ".jpg"}] :
        Loaded(BareLayout, ext, "display", FALSE, {})

NextGen ==
    \/ generate_masks
    \/ \E c \in {Comp(b, "", e) : b \in Bases, e \in Exts}, ok \in BOOLEAN :
         MaskGenerationThread_image(c, ok)
    \/ MaskGenerationThread_finished
    \/ MaskGenerationThread_error

SpecGen == InitGen /\ [][NextGen]_vars

(* C17: a failure while processing one image does not stop
   MaskGenerationThread: a run that has ended after such a failure attempted
   every image of the input directory and emitted finished exactly once and
   never error; error is emitted, once and without finished, only by a run that
   failed outside the processing of an image. *)
GenerationSurvivesImageFailure ==
    /\ gen.finished + gen.error <= 1
    /\ gen.failed # {} => gen.error = 0
    /\ gen.pc = "run" => gen.finished = 0 /\ gen.error = 0
    /\ gen.pc = "done" =>
         /\ gen.finished = 1 /\ gen.error = 0
         /\ gen.attempted = {c \in listdir(gen.input_dir) : IsImageName(c)}
    /\ gen.pc = "failed" => gen.error = 1 /\ gen.finished = 0 /\ gen.failed = {}

\* a run that ended although one of its two images failed
GenerationEndedAfterFailure ==
    /\ gen.pc = "done"
    /\ Cardinality(gen.failed) = 1
    /\ Cardinality(gen.attempted) = 2

-----------------------------------------------------------------------------
(* SAM2 prompts across image loads                                         *)

InitSam ==
    \E predictor \in BOOLEAN :
        Loaded(BareLayout, [b \in Bases |-> ".png"], "mask_tracing", predictor, {})

NextSam ==
    \/ \E n \in Names : click_item(n)
    \/ \E b \in Buttons, ctrl \in BOOLEAN, hit \in BOOLEAN : enhanced_mouse_press(b, ctrl, hit)
    \/ \E b \in Buttons : mouseReleaseEvent(b)
    \/ predict_mask
    \/ on_prediction_ready

SpecSam == InitSam /\ [][NextSam]_vars

(* C18: when an image has just been loaded into the tracing interface (an item
   was selected while the tracing panel is shown), the SAM2 state of the
   previous image is gone: there is no prompt point, no generated mask and
   auto-select mode is off, with the SAM2 model loaded or not. *)
LoadResetsSam2State ==
    (last.op = "select" /\ right_panel = "mask_tracing") =>
        /\ sam2.sam_points = 0
        /\ ~sam2.generated_masks
        /\ ~sam2.auto_select_mode

-----------------------------------------------------------------------------
(* C19: when load_images(B) is requested while the loader of folder A has
   not yet returned, the scan result of A is not installed afterwards:
   on_loading_finished changes ImageManager.images only for a loader of the
   folder requested last; and once the finished signal of the loader
   requested last has been handled, ImageManager.images is its scan result. *)
OnlyLatestLoadInstalled ==
    /\ [](\A i \in DOMAIN loaders :
            (i = loader_thread /\ loaders[i].pc = "done"
                /\ \A k \in DOMAIN ui_queue : ui_queue[k].thread # i)
                => images = loaders[i].payload.images)
    /\ [][on_loading_finished =>
            \/ loaders[Head(ui_queue).thread].folder = original_folder
            \/ images' = images]_vars

=============================================================================
